---- MODULE Spec2Model ----
(***************************************************************************)
(* Storefront application: the product detail page's cart upsert           *)
(* (app/products/[id]/page.tsx), the catalog page's query / filter / sort  *)
(* / paginate flow (app/products/page.tsx, both the paginated page and the *)
(* client-filtered page the file also holds), the order history page       *)
(* (app/my-page/page.tsx) and the cart badge (components/CartBadge.tsx),   *)
(* against the remote store.                                               *)
(***************************************************************************)
EXTENDS Integers, Sequences, FiniteSets, TLC

VARIABLES
    \* ---- remote store ----
    cart_items,      \* table cart_items: set of rows [id, clerk_id, product_id, quantity]
    deactivated,     \* table products: ids whose is_active was set to false since the
                     \* rows of ProductsTable were written
    \* ---- product detail page, one per session ----
    user,            \* useUser(): the signed-in identity, NoUser when signed out
    productId,       \* params.id: the product id of the route
    product,         \* the loaded product's id, NoProduct when none is loaded
    detailLoading,   \* useState(true): fetchProduct is awaited
    detailError,     \* useState(null): {} is null, {m} the message m
    quantity,        \* useState(1): the selected quantity
    addingToCart,    \* useState(false)
    showDialog,      \* useState(false)
    cartItemCount,   \* useState(0)
    pc,              \* where handleAddToCart stands: idle, lookup, update, insert, count
    opQuantity,      \* the quantity captured by the running handleAddToCart closure
    existingItem,    \* the lookup's data: {} (null) or {row}
    outcome,         \* how the latest remote call of handleAddToCart returned:
                     \* none, row, norow, ok, error
    alerted,         \* alert() was shown by the current / last handleAddToCart
    added,           \* the upserts whose write succeeded: how many (n), their quantities' sum
    started,         \* number of handleAddToCart runs started (bounded by MaxAdds)
    guarded,         \* number of handleAddToCart calls that returned at its guard
    \* ---- catalog page ----
    view,             \* which catalog page: "paged" (server query) or "client" (client filter)
    searchParams,    \* useSearchParams().get("category"): {} when the URL has none, else {value}
    selectedCategory, \* useState(initialCategory)
    searchQuery,      \* useState("")
    sortBy,           \* useState("newest")
    currentPage,      \* useState(1)
    products,         \* useState([]): product ids as fetched
    filteredProducts, \* useState([]): the client page's displayed list
    totalCount,       \* useState(0)
    loading,          \* useState(true)
    error,            \* useState(null): {} is null, {m} the message m
    inflight,         \* requests awaited, oldest first: the parameters each closure captured
    lastResponse,     \* how the latest answered request returned
    retried,          \* position in inflight of the request the latest retry issued,
                      \* 0 when it is answered or there is none
    walked,           \* pages fetched in order 1, 2, ... for the current parameters
    walk,             \* their concatenation
    \* ---- order history page (my-page), of session 1's identity ----
    selectedStatus,   \* useState("all")
    orders,           \* useState([]): order ids as fetched
    ordersLoading,    \* useState(true)
    ordersError,      \* useState(null): {} is null, {m} the message m
    ordersInflight,   \* fetchOrders calls awaited: the status each closure captured
    ordersLast,       \* how the latest answered fetchOrders returned
    \* ---- cart badge, of session 1's identity ----
    itemCount,        \* useState(0)
    badgeInflight,    \* fetchCartCount calls awaited, oldest first: {} while the store
                      \* has not counted yet, {n} once it has counted n
    notices,          \* row-change notifications the store has not delivered yet
    changes,          \* changes made to cart_items beside the badge (bounded by MaxChanges)
    badgeFailed,      \* some fetchCartCount was answered with an error
    badgeFor,         \* the user.id each awaited fetchCartCount filters by, oldest first
    channels,         \* the realtime channels subscribed and not removed: their user ids
    listeners,        \* the (focus, cartUpdated) listener pairs added and not removed
    mounted,          \* the badge component is mounted
    \* ---- home page ----
    configured,       \* NEXT_PUBLIC_SUPABASE_URL and NEXT_PUBLIC_SUPABASE_ANON_KEY are both set
    popularProducts,  \* const popularProducts = await getPopularProducts()
    homeResult,       \* how the latest getPopularProducts ended: none, noconfig, rows,
                      \* nodata, error, throw
    homeRaised,       \* an exception left getPopularProducts
    homeSeen          \* the products deactivated when the latest query read the table

cartVars == <<cart_items, deactivated, user, productId, product, detailLoading, detailError,
              quantity, addingToCart, showDialog,
              cartItemCount, pc, opQuantity, existingItem, outcome, alerted, added, started, guarded>>

catalogVars == <<view, searchParams, selectedCategory, searchQuery, sortBy, currentPage, products,
                 filteredProducts, totalCount, loading, error, inflight, lastResponse,
                 retried, walked, walk>>

subVars == <<channels, listeners, mounted>>

badgeVars == <<itemCount, badgeInflight, notices, changes, badgeFailed, badgeFor, subVars>>

accountVars == <<selectedStatus, orders, ordersLoading, ordersError, ordersInflight, ordersLast,
                 badgeVars>>

homeVars == <<configured, popularProducts, homeResult, homeRaised, homeSeen>>

vars == <<cartVars, catalogVars, accountVars, homeVars>>

----------------------------------------------------------------------------
(* Bounds of the model *)

MaxAdds == 2
MaxQueryLen == 2
MaxInflight == 2
MaxChanges == 2

(* Input sets *)
Sessions == {1, 2}
Users == {"u1", "u2"}
NoUser == "none"
NoProduct == 0

----------------------------------------------------------------------------
(* Product rows of the remote store (table products).  A description is    *)
(* optional: {} is NULL, {s} is the text s.  Text is a sequence of         *)
(* one-character strings.                                                  *)

ProductNames ==
    << <<"a", "b">>, <<"A">>, <<"b">>, <<"a", "b">>,
       <<"b", "a">>, <<"B", "a">>, <<"a", "_", "b">>, <<"b", " ", "a">>,
       <<"A", "B">>, <<"b", "b">>, <<"a">>, <<"a", "a">>,
       <<"b", "_">>, <<"B">>, <<"b", "a">>, <<"A", "b">> >>

ProductDescriptions ==
    << {}, {<<"b", "_">>}, {<<"a", " ", "b">>}, {<<>>},
       {}, {<<"A", "b">>}, {}, {<<"a">>},
       {<<"b", "a", "b">>}, {}, {<<"B">>}, {},
       {<<"a", "a">>}, {}, {<<"A", "_", "a">>}, {<<"b">>} >>

ProductCategories ==
    << "electronics", "electronics", "clothing", "electronics",
       "electronics", "electronics", "electronics", "electronics",
       "electronics", "electronics", "electronics", "electronics",
       "electronics", "electronics", "clothing", "books" >>

ProductPrices == << 30, 10, 30, 20, 5, 40, 10, 25, 30, 15, 35, 20, 45, 50, 10, 5 >>

ProductStocks == << 2, 0, 3, 120, 1, 4, 7, 0, 99, 100, 12, 1, 5, 6, 8, 9 >>

ProductCreated == << 1, 1, 2, 2, 5, 6, 7, 8, 9, 10, 11, 12, 13, 14, 15, 16 >>

ProductsTable ==
    [ i \in 1..16 |->
        [id |-> i, name |-> ProductNames[i], description |-> ProductDescriptions[i],
         category |-> ProductCategories[i], price |-> ProductPrices[i],
         stock_quantity |-> ProductStocks[i], is_active |-> (i # 16),
         created_at |-> ProductCreated[i]] ]

ProductIds == 1..Len(ProductsTable)
ProductRow(id) == ProductsTable[id]

(* The products whose detail page a session has open. *)
DetailProducts == {1, 2, 3}

Min(a, b) == IF a <= b THEN a ELSE b
Max(a, b) == IF a >= b THEN a ELSE b

----------------------------------------------------------------------------
(* Product detail page: quantity selector *)

\* a maximum without the cap
maxQuantityOfStock(s) == ProductRow(product[s]).stock_quantity

\* const maxQuantity = Math.min(product.stock_quantity, 99)
maxQuantity(s) == Min(ProductRow(product[s]).stock_quantity, 99)

\* if (loading) return ...; if (error || !product) return ...: the product view
\* is rendered only past both
DetailShown(s) ==
    /\ ~detailLoading[s]
    /\ ~(\E m \in detailError[s] : m # "")
    /\ product[s] # NoProduct

\* a product view that renders the selector and the add button whatever the stock
ShownWhateverStock(s) == DetailShown(s)

\* the selector and the add button are rendered only for a loaded product in stock
InStock(s) == DetailShown(s) /\ ProductRow(product[s]).stock_quantity # 0

(* What the user may type into the quantity input: text parseInt cannot    *)
(* read (nan), or an integer.                                              *)
TypedInputs ==
    { [nan |-> TRUE, n |-> 0] } \cup
    { [nan |-> FALSE, n |-> v] : v \in {-2, 0, 2, 150} }

\* parseInt(e.target.value) || 1: NaN and 0 are falsy
ParsedOrOne(t) == IF t.nan \/ t.n = 0 THEN 1 ELSE t.n

detailVars == <<deactivated, user, productId, product, detailLoading, detailError>>
opVars == <<pc, opQuantity, existingItem, outcome, alerted, added, started, guarded>>
localVars == <<addingToCart, showDialog, cartItemCount>>

\* onClick={() => setQuantity(Math.max(1, quantity - 1))}, disabled={quantity <= 1}
Minus(s) ==
    /\ InStock(s)
    /\ ~(quantity[s] <= 1)
    /\ quantity' = [quantity EXCEPT ![s] = Max(1, quantity[s] - 1)]
    /\ UNCHANGED <<accountVars, homeVars, catalogVars, cart_items, detailVars, opVars, localVars>>

\* onClick={() => setQuantity(Math.min(maxQuantity, quantity + 1))}, disabled={quantity >= maxQuantity}
Plus(s) ==
    /\ InStock(s)
    /\ ~(quantity[s] >= maxQuantity(s))
    /\ quantity' = [quantity EXCEPT ![s] = Min(maxQuantity(s), quantity[s] + 1)]
    /\ UNCHANGED <<accountVars, homeVars, catalogVars, cart_items, detailVars, opVars, localVars>>

\* onChange: value = parseInt(...) || 1; setQuantity(Math.max(1, Math.min(maxQuantity, value)))
ChangeInput(s, t) ==
    /\ InStock(s)
    /\ quantity' = [quantity EXCEPT ![s] = Max(1, Min(maxQuantity(s), ParsedOrOne(t)))]
    /\ UNCHANGED <<accountVars, homeVars, catalogVars, cart_items, detailVars, opVars, localVars>>

\* onOpenChange={setShowDialog}: the dialog is closed
CloseDialog(s) ==
    /\ showDialog[s]
    /\ showDialog' = [showDialog EXCEPT ![s] = FALSE]
    /\ UNCHANGED <<accountVars, homeVars, catalogVars, cart_items, detailVars, opVars, quantity, addingToCart, cartItemCount>>

----------------------------------------------------------------------------
(* Remote store: table cart_items *)

\* .eq("clerk_id", u).eq("product_id", p)
LinesOf(rows, u, p) == { r \in rows : r.clerk_id = u /\ r.product_id = p }

\* .single(): the row when exactly one matches, otherwise data is null
Single(rows) == IF Cardinality(rows) = 1 THEN rows ELSE {}

\* a store that does not enforce the pair's uniqueness
UniqueViolationUnchecked(rows, row) == FALSE

\* the (owner identity, product identity) pair is unique in cart_items
UniqueViolation(rows, row) == LinesOf(rows, row.clerk_id, row.product_id) # {}

\* .insert({clerk_id, product_id, quantity}): the store gives the row its id
InsertRow(rows, u, p, q) ==
    rows \cup { [id |-> Cardinality(rows) + 1, clerk_id |-> u, product_id |-> p, quantity |-> q] }

\* an update that adds to the stored quantity instead of setting it
UpdateRowAdding(rows, id, q) ==
    { IF r.id = id THEN [r EXCEPT !.quantity = @ + q] ELSE r : r \in rows }

\* .update({quantity: q}).eq("id", id)
UpdateRow(rows, id, q) ==
    { IF r.id = id THEN [r EXCEPT !.quantity = q] ELSE r : r \in rows }

\* .select("*", {count: "exact", head: true}).eq("clerk_id", u)
CountOf(rows, u) == Cardinality({ r \in rows : r.clerk_id = u })

----------------------------------------------------------------------------
(* Product detail page: handleAddToCart, one action per await *)

\* an update that overwrites the quantity with the requested one
QuantityOverwritten(e, q) == q

\* { quantity: existingItem.quantity + quantity }
IncrementedQuantity(e, q) == e.quantity + q

Returned(s, how) == outcome' = [outcome EXCEPT ![s] = how]

Wrote(q) == added' = [n |-> added.n + 1, sum |-> added.sum + q]

\* finally { setAddingToCart(false) }: the run ends
Finish(s) ==
    /\ pc' = [pc EXCEPT ![s] = "idle"]
    /\ addingToCart' = [addingToCart EXCEPT ![s] = FALSE]
    /\ existingItem' = [existingItem EXCEPT ![s] = {}]
    /\ opQuantity' = [opQuantity EXCEPT ![s] = 0]

\* catch (err) { alert(...) } finally { setAddingToCart(false) }
Throw(s) ==
    /\ alerted' = [alerted EXCEPT ![s] = TRUE]
    /\ Finish(s)

\* a guard on the user alone
ReturnsWithoutUser(s) == user[s] = NoUser

\* if (!user || !product) return;
ReturnsAtGuard(s) == user[s] = NoUser \/ product[s] = NoProduct

\* past the guard: setAddingToCart(true), then the lookup is awaited
BeginUpsert(s) ==
    /\ started < MaxAdds
    /\ addingToCart' = [addingToCart EXCEPT ![s] = TRUE]
    /\ opQuantity' = [opQuantity EXCEPT ![s] = quantity[s]]
    /\ pc' = [pc EXCEPT ![s] = "lookup"]
    /\ Returned(s, "none")
    /\ alerted' = [alerted EXCEPT ![s] = FALSE]
    /\ started' = started + 1
    /\ UNCHANGED <<accountVars, homeVars, catalogVars, cart_items, detailVars, quantity, showDialog, cartItemCount,
                   existingItem, added, guarded>>

\* a button that is never disabled
NeverDisabled(s) == FALSE

\* disabled={addingToCart || product.stock_quantity === 0}, on a button that is
\* rendered only for a product in stock
AddDisabled(s) == addingToCart[s]

\* the button is rendered for a signed-in user and a product in stock, and is
\* disabled while addingToCart; if (!user || !product) return; setAddingToCart(true)
HandleAddToCart(s) ==
    /\ user[s] # NoUser /\ InStock(s)
    /\ ~AddDisabled(s)
    /\ BeginUpsert(s)

\* const { data: existingItem } = await ...single(): the store answers
LookupReturn(s) ==
    /\ pc[s] = "lookup"
    /\ LET found == Single(LinesOf(cart_items, user[s], product[s]))
       IN /\ existingItem' = [existingItem EXCEPT ![s] = found]
          /\ pc' = [pc EXCEPT ![s] = IF found # {} THEN "update" ELSE "insert"]
          /\ Returned(s, IF found # {} THEN "row" ELSE "norow")
    /\ UNCHANGED <<accountVars, homeVars, catalogVars, cart_items, detailVars, quantity, localVars, opQuantity,
                   alerted, added, started, guarded>>

\* the lookup fails: data is null and the error is not read
LookupError(s) ==
    /\ pc[s] = "lookup"
    /\ existingItem' = [existingItem EXCEPT ![s] = {}]
    /\ pc' = [pc EXCEPT ![s] = "insert"]
    /\ Returned(s, "error")
    /\ UNCHANGED <<accountVars, homeVars, catalogVars, cart_items, detailVars, quantity, localVars, opQuantity,
                   alerted, added, started, guarded>>

\* .update({ quantity: existingItem.quantity + quantity }).eq("id", existingItem.id)
UpdateOk(s) ==
    /\ pc[s] = "update"
    /\ \E e \in existingItem[s] :
          cart_items' = UpdateRow(cart_items, e.id, IncrementedQuantity(e, opQuantity[s]))
    /\ pc' = [pc EXCEPT ![s] = "count"]
    /\ Returned(s, "ok")
    /\ Wrote(opQuantity[s])
    /\ UNCHANGED <<accountVars, homeVars, catalogVars, detailVars, quantity, localVars, opQuantity, existingItem,
                   alerted, started, guarded>>

\* if (updateError) throw updateError
UpdateError(s) ==
    /\ pc[s] = "update"
    /\ Returned(s, "error")
    /\ Throw(s)
    /\ UNCHANGED <<accountVars, homeVars, catalogVars, cart_items, detailVars, quantity, showDialog, cartItemCount,
                   added, started, guarded>>

\* .insert({ clerk_id: user.id, product_id: product.id, quantity: quantity })
InsertOk(s) ==
    /\ pc[s] = "insert"
    /\ ~UniqueViolation(cart_items, [clerk_id |-> user[s], product_id |-> product[s]])
    /\ cart_items' = InsertRow(cart_items, user[s], product[s], opQuantity[s])
    /\ pc' = [pc EXCEPT ![s] = "count"]
    /\ Returned(s, "ok")
    /\ Wrote(opQuantity[s])
    /\ UNCHANGED <<accountVars, homeVars, catalogVars, detailVars, quantity, localVars, opQuantity, existingItem,
                   alerted, started, guarded>>

\* if (insertError) throw insertError: the store rejects the row, or the call fails
InsertError(s) ==
    /\ pc[s] = "insert"
    /\ Returned(s, "error")
    /\ Throw(s)
    /\ UNCHANGED <<accountVars, homeVars, catalogVars, cart_items, detailVars, quantity, showDialog, cartItemCount,
                   added, started, guarded>>

\* const { count } = await ...; setCartItemCount(count || 0); setShowDialog(true)
CountReturn(s) ==
    /\ pc[s] = "count"
    /\ cartItemCount' = [cartItemCount EXCEPT ![s] = CountOf(cart_items, user[s])]
    /\ showDialog' = [showDialog EXCEPT ![s] = TRUE]
    /\ Returned(s, "ok")
    /\ Finish(s)
    /\ UNCHANGED <<accountVars, homeVars, catalogVars, cart_items, detailVars, quantity, alerted, added, started, guarded>>

\* the count re-read fails: count is null, the error is not read; count || 0 is 0
CountError(s) ==
    /\ pc[s] = "count"
    /\ cartItemCount' = [cartItemCount EXCEPT ![s] = 0]
    /\ showDialog' = [showDialog EXCEPT ![s] = TRUE]
    /\ Returned(s, "error")
    /\ Finish(s)
    /\ UNCHANGED <<accountVars, homeVars, catalogVars, cart_items, detailVars, quantity, alerted, added, started, guarded>>

----------------------------------------------------------------------------
(* Specifications of the cart *)

\* no badge is mounted
\* the home page has not been requested
HomeIdle ==
    /\ configured = TRUE /\ popularProducts = << >> /\ homeResult = "none"
    /\ homeRaised = FALSE /\ homeSeen = {}

BadgeIdle ==
    /\ itemCount = 0 /\ badgeInflight = << >> /\ notices = 0 /\ changes = 0
    /\ badgeFailed = FALSE
    /\ badgeFor = << >> /\ channels = << >> /\ listeners = 0 /\ mounted = FALSE

\* no order history page is open
AccountIdle ==
    /\ BadgeIdle
    /\ selectedStatus = "all" /\ orders = << >>
    /\ ordersLoading = FALSE /\ ordersError = {} /\ ordersInflight = << >>
    /\ ordersLast = [ok |-> TRUE, message |-> ""]

\* no catalog page is open
CatalogIdle ==
    /\ view = "none"
    /\ searchParams = {}
    /\ selectedCategory = "all" /\ searchQuery = <<>> /\ sortBy = "newest"
    /\ currentPage = 1 /\ products = <<>> /\ filteredProducts = <<>> /\ totalCount = 0
    /\ loading = FALSE /\ error = {} /\ inflight = <<>>
    /\ lastResponse = [ok |-> TRUE, message |-> ""]
    /\ retried = 0
    /\ walked = 0 /\ walk = <<>>

\* a cart is empty, or holds a line an earlier visit left
InitialCarts ==
    { {}, {[id |-> 1, clerk_id |-> "u1", product_id |-> 1, quantity |-> 1]} }

InitCart ==
    /\ cart_items \in InitialCarts
    /\ user \in { u \in [Sessions -> Users] : u[1] = "u1" }
    /\ deactivated = {}
    /\ product \in [Sessions -> DetailProducts]
    /\ productId = product
    /\ detailLoading = [s \in Sessions |-> FALSE]
    /\ detailError = [s \in Sessions |-> {}]
    /\ quantity = [s \in Sessions |-> 1]
    /\ addingToCart = [s \in Sessions |-> FALSE]
    /\ showDialog = [s \in Sessions |-> FALSE]
    /\ cartItemCount = [s \in Sessions |-> 0]
    /\ pc = [s \in Sessions |-> "idle"]
    /\ opQuantity = [s \in Sessions |-> 0]
    /\ existingItem = [s \in Sessions |-> {}]
    /\ outcome = [s \in Sessions |-> "none"]
    /\ alerted = [s \in Sessions |-> FALSE]
    /\ added = [n |-> 0, sum |-> 0]
    /\ started = 0 /\ guarded = 0
    /\ CatalogIdle
    /\ AccountIdle /\ HomeIdle

Select(s) ==
    \/ Minus(s)
    \/ Plus(s)
    \/ CloseDialog(s)

UpsertStep(s) ==
    \/ HandleAddToCart(s)
    \/ LookupReturn(s)
    \/ UpdateOk(s)
    \/ InsertOk(s)
    \/ CountReturn(s)

UpsertFailure(s) ==
    \/ LookupError(s)
    \/ UpdateError(s)
    \/ InsertError(s)
    \/ CountError(s)

\* two sessions, any interleaving, remote calls may fail
NextCart == \E s \in Sessions : Select(s) \/ UpsertStep(s) \/ UpsertFailure(s)
SpecCart == InitCart /\ [][NextCart]_vars

\* one session, no remote failure
NextOne == Select(1) \/ (\E t \in TypedInputs : ChangeInput(1, t)) \/ UpsertStep(1)
InitOne == InitCart /\ cart_items = {}
SpecOne == InitOne /\ [][NextOne]_vars

----------------------------------------------------------------------------
(* Cart upsert: properties *)

Other(s) == CHOOSE t \in Sessions : t # s

\* a remote call of session s returns with an error in this step
ErrorReturn(s) == pc[s] # "idle" /\ pc'[s] # pc[s] /\ outcome'[s] = "error"

\* C1: one session, no failures, starting with no line for (identity, product):
\* once the writes of the first add (quantity q1) and of the second add
\* (quantity q2) are done, exactly one cart line exists for the pair and its
\* quantity is q1 (after the first) and q1 + q2 (after the second); the same
\* for every further add.
C1_AddsAccumulateInOneLine ==
    (added.n >= 1 /\ pc[1] \in {"count", "idle"}) =>
        \E r \in cart_items :
            /\ LinesOf(cart_items, user[1], product[1]) = {r}
            /\ r.quantity = added.sum

C1_Witness ==
    /\ added.n = 2 /\ added.sum = 3 /\ pc[1] = "idle"
    /\ \E r \in cart_items : cart_items = {r} /\ r.quantity = 3

\* C2: in every reachable state of cart_items, also under interleaved upserts of
\* two sessions of one identity, there is at most one line per
\* (owner identity, product identity) pair.
C2_OneLinePerPair ==
    \A u \in Users, p \in ProductIds : Cardinality(LinesOf(cart_items, u, p)) <= 1

\* both sessions of one identity found no line for the same product, one has
\* inserted, the other is about to insert
C2_Witness ==
    \E s \in Sessions :
        /\ user[s] = user[Other(s)] /\ product[s] = product[Other(s)]
        /\ pc[s] = "insert" /\ outcome[s] = "norow"
        /\ pc[Other(s)] = "count" /\ outcome[Other(s)] = "ok"
        /\ LinesOf(cart_items, user[s], product[s]) # {}

\* C3: every cart line's quantity is a positive integer no greater than
\* min(stock_quantity of its product, 99), after any sequence of cart upserts.
C3_QuantityWithinStockCap ==
    \A r \in cart_items :
        r.quantity >= 1 /\ r.quantity <= Min(ProductRow(r.product_id).stock_quantity, 99)

\* C4: if a remote call of the upsert (lookup, update, insert, count re-read)
\* returns an error, the run stops there, reports the failure, issues no
\* further write, and leaves the cart count and the dialog state as they were.
C4_ErrorAbortsUpsert ==
    [][\A s \in Sessions :
          ErrorReturn(s) =>
              /\ pc'[s] = "idle"
              /\ alerted'[s]
              /\ cartItemCount'[s] = cartItemCount[s]
              /\ showDialog'[s] = showDialog[s]]_vars

\* C5: two sessions upserting the same existing line: every update that
\* reaches the store sets the line's quantity to the quantity its session
\* read plus the quantity it requested, whatever the line holds by then
\* (the last write wins), and a pending update can always be applied: it is
\* not rejected or re-read because the line changed since the read.
C5_LastWriteWins ==
    /\ [](\A s \in Sessions : pc[s] = "update" => ENABLED UpdateOk(s))
    /\ [][\A s \in Sessions :
            (pc[s] = "update" /\ pc'[s] = "count") =>
                \E e \in existingItem[s] : \E r \in cart_items' :
                    r.id = e.id /\ r.quantity = e.quantity + opQuantity[s]]_vars

\* both sessions read the same version of the line and both have written: the
\* line holds one session's sum, the other's addition is lost
C5_Witness ==
    /\ pc[1] = "count" /\ pc[2] = "count"
    /\ existingItem[1] # {} /\ existingItem[1] = existingItem[2]
    /\ \E e \in existingItem[1] : \E r \in cart_items :
          /\ r.id = e.id
          /\ r.quantity < e.quantity + opQuantity[1] + opQuantity[2]
          /\ r.quantity \in {e.quantity + opQuantity[1], e.quantity + opQuantity[2]}

----------------------------------------------------------------------------
(* Text: sequences of one-character strings *)

\* toLowerCase() / the case folding of ilike
LowerChar(c) == CASE c = "A" -> "a" [] c = "B" -> "b" [] OTHER -> c
Lower(s) == [i \in 1..Len(s) |-> LowerChar(s[i])]

\* String.prototype.includes
Includes(s, q) ==
    \E i \in 0..(Len(s) - Len(q)) : SubSeq(s, i + 1, i + Len(q)) = q

\* searchQuery.trim() is truthy: some character is not white space
TrimNonEmpty(q) == \E i \in 1..Len(q) : q[i] # " "

\* SQL LIKE on folded text: % matches any run of characters, _ any one character
RECURSIVE LikeMatch(_, _)
LikeMatch(s, pat) ==
    IF pat = <<>> THEN s = <<>>
    ELSE IF Head(pat) = "%"
         THEN LikeMatch(s, Tail(pat)) \/ (s # <<>> /\ LikeMatch(Tail(s), pat))
    ELSE IF Head(pat) = "_"
         THEN s # <<>> /\ LikeMatch(Tail(s), Tail(pat))
    ELSE s # <<>> /\ Head(s) = Head(pat) /\ LikeMatch(Tail(s), Tail(pat))

\* column.ilike.pattern
ILike(s, pat) == LikeMatch(Lower(s), Lower(pat))

\* the order of text values (by character code)
CharCode(c) ==
    CASE c = " " -> 32 [] c = "A" -> 65 [] c = "B" -> 66 [] c = "_" -> 95
      [] c = "a" -> 97 [] c = "b" -> 98 [] OTHER -> 127

RECURSIVE TextLess(_, _)
TextLess(a, b) ==
    IF b = <<>> THEN FALSE
    ELSE IF a = <<>> THEN TRUE
    ELSE IF Head(a) # Head(b) THEN CharCode(Head(a)) < CharCode(Head(b))
    ELSE TextLess(Tail(a), Tail(b))

----------------------------------------------------------------------------
(* Catalog page, paged: the query fetchProducts composes *)

ITEMS_PER_PAGE == 12

validCategories ==
    {"all", "electronics", "clothing", "books", "food", "sports", "beauty", "home"}

\* a category condition that is never applied
CategoryConditionDropped(r, category) == TRUE

\* if (selectedCategory !== "all") query = query.eq("category", selectedCategory)
CategoryCondition(r, category) == category = "all" \/ r.category = category

\* `%${searchQuery}%`
Pattern(q) == <<"%">> \o q \o <<"%">>

\* if (searchQuery.trim()) query = query.or(`name.ilike.%q%,description.ilike.%q%`)
TextCondition(r, q) ==
    TrimNonEmpty(q) =>
        \/ ILike(r.name, Pattern(q))
        \/ \E d \in r.description : ILike(d, Pattern(q))

\* .eq("is_active", true) and the two optional conditions
Matching(category, q) ==
    { id \in ProductIds :
        /\ ProductRow(id).is_active
        /\ CategoryCondition(ProductRow(id), category)
        /\ TextCondition(ProductRow(id), q) }

\* an order by name that descends
ServerKeyLessDescending(a, b, sort) ==
    IF sort = "name_asc" THEN TextLess(ProductRow(b).name, ProductRow(a).name)
    ELSE ProductRow(a).created_at > ProductRow(b).created_at

\* switch (sortBy): name_asc orders by name ascending, newest and default by
\* created_at descending
ServerKeyLess(a, b, sort) ==
    IF sort = "name_asc" THEN TextLess(ProductRow(a).name, ProductRow(b).name)
    ELSE ProductRow(a).created_at > ProductRow(b).created_at

\* rows that tie on the order key come in an order the store chooses per
\* query: here the storage order ("heap") or its reverse ("reverse")
TiePlans == {"heap", "reverse"}
TieBefore(a, b, plan) == IF plan = "heap" THEN a < b ELSE a > b

ServerBefore(a, b, sort, plan) ==
    \/ ServerKeyLess(a, b, sort)
    \/ ~ServerKeyLess(b, a, sort) /\ TieBefore(a, b, plan)

\* the rows of S in the query's order
RECURSIVE InsertOrdered(_, _, _, _)
InsertOrdered(x, seq, sort, plan) ==
    IF seq = << >> THEN << x >>
    ELSE IF ServerBefore(x, Head(seq), sort, plan) THEN << x >> \o seq
    ELSE << Head(seq) >> \o InsertOrdered(x, Tail(seq), sort, plan)

RECURSIVE Ordered(_, _, _)
Ordered(S, sort, plan) ==
    IF S = {} THEN << >>
    ELSE LET x == CHOOSE y \in S : TRUE
         IN InsertOrdered(x, Ordered(S \ {x}, sort, plan), sort, plan)

\* const from = (currentPage - 1) * ITEMS_PER_PAGE; const to = from + ITEMS_PER_PAGE - 1
RangeFrom(page) == (page - 1) * ITEMS_PER_PAGE
\* a range one row too long
RangeToOnePast(page) == RangeFrom(page) + ITEMS_PER_PAGE
RangeTo(page) == RangeFrom(page) + ITEMS_PER_PAGE - 1

\* .range(from, to): rows from..to of the ordered result, zero-based, inclusive
Range(rows, from, to) == SubSeq(rows, from + 1, Min(to + 1, Len(rows)))

\* const { data, count } = await query: the page and the exact count
ServerQuery(category, q, sort, page, plan) ==
    LET rows == Matching(category, q)
    IN [ data  |-> Range(Ordered(rows, sort, plan), RangeFrom(page), RangeTo(page)),
         count |-> Cardinality(rows) ]

\* const totalPages = Math.ceil(totalCount / ITEMS_PER_PAGE)
TotalPages(count) == (count + ITEMS_PER_PAGE - 1) \div ITEMS_PER_PAGE

----------------------------------------------------------------------------
(* Catalog page, client-filtered: fetch all, then filter and sort locally *)

\* .eq("is_active", true).order("created_at", { ascending: false })
ClientFetch(plan) == Ordered({ id \in ProductIds : ProductRow(id).is_active }, "newest", plan)

\* filtered.filter((p) => p.category === selectedCategory)
ClientCategoryFilter(id, category) == category = "all" \/ ProductRow(id).category = category

\* p.name.toLowerCase().includes(query) ||
\* (p.description && p.description.toLowerCase().includes(query))
\* an empty description is falsy
ClientTextFilter(id, q) ==
    TrimNonEmpty(q) =>
        \/ Includes(Lower(ProductRow(id).name), Lower(q))
        \/ \E d \in ProductRow(id).description : d # <<>> /\ Includes(Lower(d), Lower(q))

\* the comparator of filtered.sort: a.price - b.price, b.price - a.price, or
\* newest (also the default) by created_at descending
ClientLess(a, b, sort) ==
    CASE sort = "price_asc"  -> ProductRow(a).price < ProductRow(b).price
      [] sort = "price_desc" -> ProductRow(a).price > ProductRow(b).price
      [] OTHER               -> ProductRow(a).created_at > ProductRow(b).created_at

\* Array.prototype.sort is stable
StableSort(seq, sort) ==
    LET n == Len(seq)
        before(i, j) ==
            \/ ClientLess(seq[i], seq[j], sort)
            \/ ~ClientLess(seq[j], seq[i], sort) /\ i < j
    IN [ k \in 1..n |->
           seq[CHOOSE i \in 1..n : Cardinality({ j \in 1..n : before(j, i) }) = k - 1] ]

\* the filter and sort effect: setFilteredProducts(filtered)
ClientFilter(seq, category, q, sort) ==
    LET keep(id) == ClientCategoryFilter(id, category) /\ ClientTextFilter(id, q)
    IN StableSort(SelectSeq(seq, keep), sort)

----------------------------------------------------------------------------
(* The catalog query applied to drawn parameters: pages fetched in order *)

QueryChars == {"a", "B", "_", " "}
Queries == UNION { [1..k -> QueryChars] : k \in 0..MaxQueryLen }

\* the sort keys each page's <select> offers
PagedSorts == {"newest", "name_asc"}
ClientSorts == {"newest", "price_asc", "price_desc"}

\* no detail page is in use
DetailIdle ==
    /\ cart_items = {}
    /\ deactivated = {}
    /\ productId = [s \in Sessions |-> 1]
    /\ product = [s \in Sessions |-> 1]
    /\ detailLoading = [s \in Sessions |-> FALSE]
    /\ detailError = [s \in Sessions |-> {}]
    /\ quantity = [s \in Sessions |-> 1]
    /\ addingToCart = [s \in Sessions |-> FALSE]
    /\ showDialog = [s \in Sessions |-> FALSE]
    /\ cartItemCount = [s \in Sessions |-> 0]
    /\ pc = [s \in Sessions |-> "idle"]
    /\ opQuantity = [s \in Sessions |-> 0]
    /\ existingItem = [s \in Sessions |-> {}]
    /\ outcome = [s \in Sessions |-> "none"]
    /\ alerted = [s \in Sessions |-> FALSE]
    /\ added = [n |-> 0, sum |-> 0]
    /\ started = 0 /\ guarded = 0

CartIdle == user = [s \in Sessions |-> "u1"] /\ DetailIdle

InitQuery ==
    /\ CartIdle
    /\ AccountIdle /\ HomeIdle
    /\ view \in {"paged", "client"}
    /\ selectedCategory \in validCategories
    /\ searchParams = {}
    /\ searchQuery \in Queries
    /\ sortBy \in (IF view = "paged" THEN PagedSorts ELSE ClientSorts)
    /\ currentPage = 1 /\ products = <<>> /\ filteredProducts = <<>> /\ totalCount = 0
    /\ loading = TRUE /\ error = {} /\ inflight = <<>>
    /\ lastResponse = [ok |-> TRUE, message |-> ""]
    /\ retried = 0
    /\ walked = 0 /\ walk = <<>>

\* fetchProducts for the next page in order, answered without error:
\* setProducts(data || []); setTotalCount(count || 0); setLoading(false)
FetchPage(plan) ==
    /\ view = "paged"
    /\ walked = 0 \/ walked < TotalPages(totalCount)
    /\ LET r == ServerQuery(selectedCategory, searchQuery, sortBy, walked + 1, plan)
       IN /\ products' = r.data
          /\ totalCount' = r.count
          /\ walk' = walk \o r.data
    /\ currentPage' = walked + 1
    /\ walked' = walked + 1
    /\ loading' = FALSE
    /\ UNCHANGED <<accountVars, homeVars, cartVars, searchParams, retried, view, selectedCategory, searchQuery, sortBy, filteredProducts,
                   error, inflight, lastResponse>>

\* the client page's fetchProducts answered without error, then the filter effect
ClientLoad(plan) ==
    /\ view = "client"
    /\ walked = 0
    /\ products' = ClientFetch(plan)
    /\ filteredProducts' = ClientFilter(products', selectedCategory, searchQuery, sortBy)
    /\ walked' = 1
    /\ loading' = FALSE
    /\ UNCHANGED <<accountVars, homeVars, cartVars, searchParams, retried, view, selectedCategory, searchQuery, sortBy, currentPage, totalCount,
                   error, inflight, lastResponse, walk>>

\* the client page's setSelectedCategory / setSearchQuery / setSortBy, then the
\* filter effect on the products held
ClientChange(category, q, sort) ==
    /\ view = "client"
    /\ walked = 1
    /\ selectedCategory' = category /\ searchQuery' = q /\ sortBy' = sort
    /\ filteredProducts' = ClientFilter(products, category, q, sort)
    /\ UNCHANGED <<accountVars, homeVars, cartVars, searchParams, retried, view, currentPage, products, totalCount, loading, error, inflight,
                   lastResponse, walked, walk>>

NextQuery ==
    \/ \E plan \in TiePlans : FetchPage(plan)
    \/ \E plan \in TiePlans : ClientLoad(plan)
    \/ \E c \in validCategories : ClientChange(c, searchQuery, sortBy)
    \/ \E q \in Queries : ClientChange(selectedCategory, q, sortBy)
    \/ \E s \in ClientSorts : ClientChange(selectedCategory, searchQuery, s)

SpecQuery == InitQuery /\ [][NextQuery]_vars

----------------------------------------------------------------------------
(* Catalog page, paged: the page as a state machine.  A request in flight  *)
(* holds the parameters its fetchProducts closure captured; answers arrive *)
(* in any order.                                                           *)

CatalogCategories == {"all", "electronics", "clothing"}
CatalogQueries == { <<>>, <<"b">> }

\* what a failed query returns as queryError: an object with a message
RemoteErrors == { [message |-> "timeout", isError |-> FALSE],
                  [message |-> "", isError |-> FALSE] }

\* "상품을 가져오는 중 오류가 발생했습니다."
DefaultMessage == "fetch failed"

\* a message that hides the underlying one
ErrorMessageGeneric(err) == DefaultMessage

\* supabaseError.message || (err instanceof Error ? err.message : default)
ErrorMessage(err) ==
    IF err.message # "" THEN err.message
    ELSE IF err.isError THEN err.message ELSE DefaultMessage

\* searchParams.get("category"): the set is empty when the URL has no such parameter
\* const initialCategory = categoryFromUrl && validCategories.includes(categoryFromUrl)
\*     ? categoryFromUrl : "all"
InitialCategory(params) ==
    IF \E c \in params : c # "" /\ c \in validCategories
    THEN CHOOSE c \in params : TRUE
    ELSE "all"

\* the URL handleCategoryChange writes: "/products" for "all", else ?category=<category>
UrlOf(category) == IF category # "all" THEN { category } ELSE {}

Request(category, q, sort, page) ==
    [category |-> category, query |-> q, sort |-> sort, page |-> page]

\* the pages the pagination can offer over this table
CatalogPages == 1..TotalPages(Len(ProductsTable))

Requests ==
    [category : CatalogCategories, query : CatalogQueries, sort : PagedSorts, page : CatalogPages]

\* const { data, error: queryError, count } = await query, for each request the
\* page can make and each tie order the store can choose, tabulated
Answer ==
    [ x \in Requests \X TiePlans |->
        ServerQuery(x[1].category, x[1].query, x[1].sort, x[1].page, x[2]) ] @@ << >>

\* the position of the retry's request once the request at position i is answered
AfterAnswer(at, i) == IF i = at THEN 0 ELSE IF i < at THEN at - 1 ELSE at

RemoveAt(seq, i) == SubSeq(seq, 1, i - 1) \o SubSeq(seq, i + 1, Len(seq))

\* if (error && !loading): the error view, with its retry button, replaces the page
ErrorView == ~loading /\ \E m \in error : m # ""

InitCatalog ==
    /\ CartIdle
    /\ AccountIdle /\ HomeIdle
    /\ view = "paged"
    /\ searchParams \in { UrlOf(c) : c \in CatalogCategories }
    /\ selectedCategory = InitialCategory(searchParams)
    /\ searchQuery = <<>> /\ sortBy = "newest" /\ currentPage = 1
    /\ products = <<>> /\ filteredProducts = <<>> /\ totalCount = 0
    /\ loading = TRUE /\ error = {}
    /\ inflight = << Request(selectedCategory, <<>>, "newest", 1) >>
    /\ lastResponse = [ok |-> TRUE, message |-> ""]
    /\ retried = 0
    /\ walked = 0 /\ walk = <<>>

\* A filter, search or sort change re-renders; the page-reset effect calls
\* setCurrentPage(1) and the fetch effect calls fetchProducts, whose closure
\* holds the page of this render; if the page was not 1, the next render's
\* fetch effect calls fetchProducts again, with page 1.
\* fetchProducts: setLoading(true); setError(null); await query
ChangeParams(category, q, sort) ==
    /\ view = "paged"
    /\ ~ErrorView
    /\ <<category, q, sort>> # <<selectedCategory, searchQuery, sortBy>>
    /\ LET first == << Request(category, q, sort, currentPage) >>
           again == IF currentPage # 1 THEN << Request(category, q, sort, 1) >> ELSE << >>
       IN /\ Len(inflight) + Len(first) + Len(again) <= MaxInflight
          /\ inflight' = inflight \o first \o again
    /\ selectedCategory' = category /\ searchQuery' = q /\ sortBy' = sort
    /\ currentPage' = 1
    /\ loading' = TRUE
    /\ error' = {}
    /\ UNCHANGED <<accountVars, homeVars, cartVars, retried, view, products, filteredProducts, totalCount, lastResponse,
                   walked, walk>>

\* handleCategoryChange: if (selectedCategory === category) return; setSelectedCategory
\* if (category !== "all") params.set("category", category); router.replace(newUrl)
HandleCategoryChange(category) ==
    /\ ChangeParams(category, searchQuery, sortBy)
    /\ searchParams' = UrlOf(category)

\* onChange={(e) => setSearchQuery(e.target.value)}
SetSearchQuery(q) == ChangeParams(selectedCategory, q, sortBy) /\ UNCHANGED searchParams

\* onChange={(e) => setSortBy(e.target.value)}
SetSortBy(sort) == ChangeParams(selectedCategory, searchQuery, sort) /\ UNCHANGED searchParams

\* handlePageChange: setCurrentPage(page), for a page the pagination offers
HandlePageChange(page) ==
    /\ view = "paged"
    /\ ~ErrorView
    /\ page \in 1..TotalPages(totalCount) /\ page # currentPage
    /\ Len(inflight) < MaxInflight
    /\ currentPage' = page
    /\ inflight' = Append(inflight, Request(selectedCategory, searchQuery, sortBy, page))
    /\ loading' = TRUE
    /\ error' = {}
    /\ UNCHANGED <<accountVars, homeVars, cartVars, searchParams, retried, view, selectedCategory, searchQuery, sortBy, products,
                   filteredProducts, totalCount, lastResponse, walked, walk>>

\* <Button onClick={fetchProducts}> of the error view
Retry ==
    /\ view = "paged"
    /\ ErrorView
    /\ Len(inflight) < MaxInflight
    /\ inflight' = Append(inflight, Request(selectedCategory, searchQuery, sortBy, currentPage))
    /\ loading' = TRUE
    /\ error' = {}
    /\ retried' = Len(inflight) + 1
    /\ UNCHANGED <<accountVars, homeVars, cartVars, searchParams, view, selectedCategory, searchQuery, sortBy, currentPage,
                   products, filteredProducts, totalCount, lastResponse, walked, walk>>

\* a request is answered with rows:
\* setProducts(data || []); setTotalCount(count || 0); finally setLoading(false)
FetchResolve(i, plan) ==
    /\ view = "paged"
    /\ i \in 1..Len(inflight)
    /\ LET req == inflight[i]
           r == Answer[<<req, plan>>]
       IN /\ products' = r.data
          /\ totalCount' = r.count
    /\ loading' = FALSE
    /\ inflight' = RemoveAt(inflight, i)
    /\ lastResponse' = [ok |-> TRUE, message |-> ""]
    /\ retried' = AfterAnswer(retried, i)
    /\ UNCHANGED <<accountVars, homeVars, cartVars, searchParams, view, selectedCategory, searchQuery, sortBy, currentPage,
                   filteredProducts, error, walked, walk>>

\* a request is answered with an error:
\* if (queryError) throw queryError; catch: setError(errorMessage); finally setLoading(false)
FetchReject(i, err) ==
    /\ view = "paged"
    /\ i \in 1..Len(inflight)
    /\ error' = { ErrorMessage(err) }
    /\ loading' = FALSE
    /\ inflight' = RemoveAt(inflight, i)
    /\ lastResponse' = [ok |-> FALSE, message |-> err.message]
    /\ retried' = AfterAnswer(retried, i)
    /\ UNCHANGED <<accountVars, homeVars, cartVars, searchParams, view, selectedCategory, searchQuery, sortBy, currentPage,
                   products, filteredProducts, totalCount, walked, walk>>

NextCatalog ==
    \/ \E c \in CatalogCategories : HandleCategoryChange(c)
    \/ \E q \in CatalogQueries : SetSearchQuery(q)
    \/ \E s \in PagedSorts : SetSortBy(s)
    \/ \E n \in CatalogPages : HandlePageChange(n)
    \/ Retry
    \/ \E i \in 1..MaxInflight, plan \in TiePlans : FetchResolve(i, plan)
    \/ \E i \in 1..MaxInflight, err \in RemoteErrors : FetchReject(i, err)

SpecCatalog == InitCatalog /\ [][NextCatalog]_vars

----------------------------------------------------------------------------
(* The catalog page and its URL *)

\* the category parameters a URL can carry: none, valid ones, an empty one,
\* an unknown one and a valid one in another letter case
UrlParams == { {}, {"all"}, {"electronics"}, {"clothing"}, {""}, {"toys"}, {"Electronics"} }

\* the effect on [searchParams]: a valid parameter is selected, a missing (or
\* empty) one selects "all", any other leaves the selection as it is
UrlCategory(params, prev) ==
    IF \E c \in params : c # "" /\ c \in validCategories
    THEN CHOOSE c \in params : TRUE
    ELSE IF \A c \in params : c = ""
         THEN "all"
         ELSE prev

\* The URL of the mounted page changes (a link, history navigation): the
\* effect on [searchParams] runs; when it changes the selection, the
\* page-reset effect and the fetch effect run as for any filter change.
UrlChange(params) ==
    /\ view = "paged"
    /\ params # searchParams
    /\ searchParams' = params
    /\ LET category == UrlCategory(params, selectedCategory)
           first == << Request(category, searchQuery, sortBy, currentPage) >>
           again == IF currentPage # 1
                    THEN << Request(category, searchQuery, sortBy, 1) >> ELSE << >>
       IN IF category # selectedCategory
          THEN /\ Len(inflight) + Len(first) + Len(again) <= MaxInflight
               /\ inflight' = inflight \o first \o again
               /\ selectedCategory' = category
               /\ currentPage' = 1
               /\ loading' = TRUE
               /\ error' = {}
          ELSE UNCHANGED <<inflight, selectedCategory, currentPage, loading, error>>
    /\ UNCHANGED <<accountVars, homeVars, cartVars, retried, view, searchQuery, sortBy, products,
                   filteredProducts, totalCount, lastResponse, walked, walk>>

\* the page is mounted under any URL
InitUrl ==
    /\ CartIdle
    /\ AccountIdle /\ HomeIdle
    /\ view = "paged"
    /\ searchParams \in UrlParams
    /\ selectedCategory = InitialCategory(searchParams)
    /\ searchQuery = <<>> /\ sortBy = "newest" /\ currentPage = 1
    /\ products = <<>> /\ filteredProducts = <<>> /\ totalCount = 0
    /\ loading = TRUE /\ error = {}
    /\ inflight = << Request(selectedCategory, <<>>, "newest", 1) >>
    /\ lastResponse = [ok |-> TRUE, message |-> ""]
    /\ retried = 0
    /\ walked = 0 /\ walk = <<>>

NextUrl ==
    \/ \E params \in UrlParams : UrlChange(params)
    \/ \E c \in CatalogCategories : HandleCategoryChange(c)
    \/ \E n \in CatalogPages : HandlePageChange(n)
    \/ \E i \in 1..MaxInflight, plan \in TiePlans : FetchResolve(i, plan)

SpecUrl == InitUrl /\ [][NextUrl]_vars

----------------------------------------------------------------------------
(* Product detail page from its mount: fetchProduct, then the selector and *)
(* the cart upsert, while the store's products may be deactivated.         *)

\* the route's product id: a product in stock (1), one out of stock (2), the
\* inactive one, and an id no row has
DetailRoutes == {1, 2, Len(ProductsTable), Len(ProductsTable) + 1}

\* routes to products in stock: 1 (2 in stock) and 4 (more than 99 in stock)
SelectorRoutes == {1, 4}

\* the row is active now
IsActive(id) == ProductRow(id).is_active /\ id \notin deactivated

\* a read by id alone
RowsWithId(id) == { r \in ProductIds : r = id }

\* .eq("id", productId).eq("is_active", true)
ActiveRowsOf(id) == { r \in ProductIds : r = id /\ IsActive(r) }

\* what .single() returns as error when the rows are not exactly one; whether
\* the error object is an Error instance is the client library's choice
SingleErrors == { [message |-> "no single row", isError |-> b] : b \in BOOLEAN }

\* errors of the remote call itself
FetchErrors == RemoteErrors \cup { [message |-> "", isError |-> TRUE] }

\* "상품을 찾을 수 없습니다."
NotFoundMessage == "product not found"

\* err instanceof Error ? err.message : "상품을 가져오는 중 오류가 발생했습니다."
DetailErrorMessage(err) == IF err.isError THEN err.message ELSE DefaultMessage

\* {error || "상품을 찾을 수 없습니다."}
DetailMessageShown(s) ==
    IF \E m \in detailError[s] : m # "" THEN CHOOSE m \in detailError[s] : TRUE
    ELSE NotFoundMessage

\* if (error || !product): the message and the link back to the listing
DetailErrorView(s) ==
    /\ ~detailLoading[s]
    /\ (\E m \in detailError[s] : m # "") \/ product[s] = NoProduct

upsertVars == <<quantity, addingToCart, showDialog, cartItemCount, pc, opQuantity,
                existingItem, outcome, alerted, added, started, guarded>>

DetailMount(routes) ==
    /\ cart_items \in InitialCarts
    /\ deactivated = {}
    /\ user = [s \in Sessions |-> "u1"]
    /\ productId \in { r \in [Sessions -> routes \cup {1}] : r[1] \in routes /\ r[2] = 1 }
    /\ product = [s \in Sessions |-> NoProduct]
    /\ detailLoading = [s \in Sessions |-> TRUE]
    /\ detailError = [s \in Sessions |-> {}]
    /\ quantity = [s \in Sessions |-> 1]
    /\ addingToCart = [s \in Sessions |-> FALSE]
    /\ showDialog = [s \in Sessions |-> FALSE]
    /\ cartItemCount = [s \in Sessions |-> 0]
    /\ pc = [s \in Sessions |-> "idle"]
    /\ opQuantity = [s \in Sessions |-> 0]
    /\ existingItem = [s \in Sessions |-> {}]
    /\ outcome = [s \in Sessions |-> "none"]
    /\ alerted = [s \in Sessions |-> FALSE]
    /\ added = [n |-> 0, sum |-> 0]
    /\ started = 0 /\ guarded = 0
    /\ CatalogIdle
    /\ AccountIdle /\ HomeIdle

\* fetchProduct: the store answers with the one active row: setProduct(data)
FetchProductReturn(s) ==
    /\ detailLoading[s]
    /\ ActiveRowsOf(productId[s]) # {}
    /\ product' = [product EXCEPT ![s] = productId[s]]
    /\ detailLoading' = [detailLoading EXCEPT ![s] = FALSE]
    /\ UNCHANGED <<accountVars, homeVars, catalogVars, cart_items, deactivated, user, productId, detailError, upsertVars>>

\* fetchProduct: no active row has the id: .single() answers with an error,
\* if (queryError) throw queryError; catch: setError(errorMessage)
FetchProductMissing(s, err) ==
    /\ detailLoading[s]
    /\ ActiveRowsOf(productId[s]) = {}
    /\ detailError' = [detailError EXCEPT ![s] = { DetailErrorMessage(err) }]
    /\ detailLoading' = [detailLoading EXCEPT ![s] = FALSE]
    /\ UNCHANGED <<accountVars, homeVars, catalogVars, cart_items, deactivated, user, productId, product, upsertVars>>

\* fetchProduct: the remote call fails
FetchProductError(s, err) ==
    /\ detailLoading[s]
    /\ detailError' = [detailError EXCEPT ![s] = { DetailErrorMessage(err) }]
    /\ detailLoading' = [detailLoading EXCEPT ![s] = FALSE]
    /\ UNCHANGED <<accountVars, homeVars, catalogVars, cart_items, deactivated, user, productId, product, upsertVars>>

\* outside this application a product row's is_active is set to false
Deactivate(p) ==
    /\ p \in ProductIds /\ IsActive(p)
    /\ deactivated' = deactivated \cup {p}
    /\ UNCHANGED <<accountVars, homeVars, catalogVars, cart_items, user, productId, product, detailLoading,
                   detailError, upsertVars>>

NextDetail ==
    \/ FetchProductReturn(1)
    \/ \E err \in SingleErrors : FetchProductMissing(1, err)
    \/ \E err \in FetchErrors : FetchProductError(1, err)
    \/ Deactivate(productId[1])
    \/ Select(1)
    \/ \E t \in TypedInputs : ChangeInput(1, t)
    \/ UpsertStep(1)
    \/ UpsertFailure(1)

InitDetail == DetailMount(DetailRoutes)
SpecDetail == InitDetail /\ [][NextDetail]_vars

\* the quantity selector and the start of the upsert, for products in stock,
\* against a store that rejects the writes
NextSelector ==
    \/ FetchProductReturn(1)
    \/ Minus(1)
    \/ Plus(1)
    \/ \E t \in TypedInputs : ChangeInput(1, t)
    \/ HandleAddToCart(1)
    \/ LookupReturn(1)
    \/ UpdateError(1)
    \/ InsertError(1)

InitSelector == DetailMount(SelectorRoutes)
SpecSelector == InitSelector /\ [][NextSelector]_vars

----------------------------------------------------------------------------
(* Order history page (my-page): fetchOrders and the status filter *)

\* rows of table orders: two identities, orders 4 and 5 created at once
OrdersTable ==
    << [id |-> 1, clerk_id |-> "u1", status |-> "pending",   created_at |-> 1],
       [id |-> 2, clerk_id |-> "u1", status |-> "shipped",   created_at |-> 2],
       [id |-> 3, clerk_id |-> "u2", status |-> "shipped",   created_at |-> 2],
       [id |-> 4, clerk_id |-> "u1", status |-> "shipped",   created_at |-> 3],
       [id |-> 5, clerk_id |-> "u1", status |-> "shipped",   created_at |-> 3],
       [id |-> 6, clerk_id |-> "u2", status |-> "delivered", created_at |-> 4],
       [id |-> 7, clerk_id |-> "u1", status |-> "delivered", created_at |-> 5] >>

OrderIds == 1..Len(OrdersTable)
OrderRow(id) == OrdersTable[id]

\* statusOptions
StatusOptions == {"all", "pending", "confirmed", "shipped", "delivered", "cancelled"}

\* a read that is not restricted to the identity
OwnerConditionDropped(r, u) == TRUE

\* .eq("clerk_id", user.id)
OwnerCondition(r, u) == r.clerk_id = u

\* if (selectedStatus !== "all") query = query.eq("status", selectedStatus)
StatusCondition(r, status) == status # "all" => r.status = status

OrdersMatching(u, status) ==
    { id \in OrderIds :
        OwnerCondition(OrderRow(id), u) /\ StatusCondition(OrderRow(id), status) }

\* .order("created_at", { ascending: false }); tied rows in the store's order
OrderBefore(a, b, plan) ==
    \/ OrderRow(a).created_at > OrderRow(b).created_at
    \/ OrderRow(a).created_at = OrderRow(b).created_at /\ TieBefore(a, b, plan)

RECURSIVE InsertOrder(_, _, _)
InsertOrder(x, seq, plan) ==
    IF seq = << >> THEN << x >>
    ELSE IF OrderBefore(x, Head(seq), plan) THEN << x >> \o seq
    ELSE << Head(seq) >> \o InsertOrder(x, Tail(seq), plan)

RECURSIVE OrdersOrdered(_, _)
OrdersOrdered(S, plan) ==
    IF S = {} THEN << >>
    ELSE LET x == CHOOSE y \in S : TRUE
         IN InsertOrder(x, OrdersOrdered(S \ {x}, plan), plan)

\* const { data, error: queryError } = await query
OrdersQuery(u, status, plan) == OrdersOrdered(OrdersMatching(u, status), plan)

\* "주문 내역을 가져오는 중 오류가 발생했습니다."
OrdersDefaultMessage == "fetch orders failed"

\* supabaseError.message || (err instanceof Error ? err.message : default)
OrdersErrorMessage(err) ==
    IF err.message # "" THEN err.message
    ELSE IF err.isError THEN err.message ELSE OrdersDefaultMessage

\* if (!user) redirect; if (loading) the loading view; if (error) the error view
OrdersErrorView ==
    user[1] # NoUser /\ ~ordersLoading /\ \E m \in ordersError : m # ""

\* the page with the status select and the order list
OrdersShown ==
    user[1] # NoUser /\ ~ordersLoading /\ ~(\E m \in ordersError : m # "")

\* the page once the identity is loaded and the effect has called fetchOrders:
\* signed out, fetchOrders only clears loading
InitOrders ==
    /\ DetailIdle /\ CatalogIdle /\ BadgeIdle /\ HomeIdle
    /\ \E u \in Users \cup {NoUser} :
          /\ user = [s \in Sessions |-> u]
          /\ ordersLoading = (u # NoUser)
          /\ ordersInflight = IF u # NoUser THEN << "all" >> ELSE << >>
    /\ selectedStatus = "all"
    /\ orders = << >>
    /\ ordersError = {}
    /\ ordersLast = [ok |-> TRUE, message |-> ""]

\* fetchOrders: setLoading(true); setError(null); await query
CallFetchOrders(status) ==
    /\ ordersLoading' = TRUE
    /\ ordersError' = {}
    /\ ordersInflight' = Append(ordersInflight, status)

\* onChange={(e) => setSelectedStatus(e.target.value)}, then the effect
SetSelectedStatus(status) ==
    /\ OrdersShown
    /\ status # selectedStatus
    /\ selectedStatus' = status
    /\ CallFetchOrders(status)
    /\ UNCHANGED <<badgeVars, cartVars, catalogVars, homeVars, orders, ordersLast>>

\* <Button onClick={fetchOrders}> of the error view
OrdersRetry ==
    /\ OrdersErrorView
    /\ CallFetchOrders(selectedStatus)
    /\ UNCHANGED <<badgeVars, cartVars, catalogVars, homeVars, selectedStatus, orders, ordersLast>>

\* the query is answered with rows: setOrders(data || []); finally setLoading(false)
OrdersResolve(i, plan) ==
    /\ i \in 1..Len(ordersInflight)
    /\ orders' = OrdersQuery(user[1], ordersInflight[i], plan)
    /\ ordersLoading' = FALSE
    /\ ordersInflight' = RemoveAt(ordersInflight, i)
    /\ ordersLast' = [ok |-> TRUE, message |-> ""]
    /\ UNCHANGED <<badgeVars, cartVars, catalogVars, homeVars, selectedStatus, ordersError>>

\* the query is answered with an error: setError(errorMessage); finally setLoading(false)
OrdersReject(i, err) ==
    /\ i \in 1..Len(ordersInflight)
    /\ ordersError' = { OrdersErrorMessage(err) }
    /\ ordersLoading' = FALSE
    /\ ordersInflight' = RemoveAt(ordersInflight, i)
    /\ ordersLast' = [ok |-> FALSE, message |-> err.message]
    /\ UNCHANGED <<badgeVars, cartVars, catalogVars, homeVars, selectedStatus, orders>>

NextOrders ==
    \/ \E status \in StatusOptions : SetSelectedStatus(status)
    \/ OrdersRetry
    \/ \E i \in 1..MaxInflight, plan \in TiePlans : OrdersResolve(i, plan)
    \/ \E i \in 1..MaxInflight, err \in RemoteErrors : OrdersReject(i, err)

SpecOrders == InitOrders /\ [][NextOrders]_vars

----------------------------------------------------------------------------
(* Cart badge: fetchCartCount, the row-change subscription, the focus and  *)
(* cartUpdated listeners, beside changes made to the identity's cart.      *)

orderVars == <<selectedStatus, orders, ordersLoading, ordersError, ordersInflight, ordersLast>>

pageVars == <<deactivated, user, productId, product, detailLoading, detailError, upsertVars>>

\* the badge is mounted for a signed-in identity: the effect has called
\* fetchCartCount and subscribed to the row changes
InitBadge ==
    /\ CartIdle /\ CatalogIdle /\ HomeIdle
    /\ selectedStatus = "all" /\ orders = << >>
    /\ ordersLoading = FALSE /\ ordersError = {} /\ ordersInflight = << >>
    /\ ordersLast = [ok |-> TRUE, message |-> ""]
    /\ itemCount = 0
    /\ badgeInflight = << {} >>
    /\ notices = 0 /\ changes = 0
    /\ badgeFailed = FALSE
    /\ badgeFor = << "u1" >> /\ channels = << "u1" >> /\ listeners = 1 /\ mounted = TRUE

\* some channel not removed carries the filter clerk_id=eq.<u>
Subscribed(u) == \E k \in 1..Len(channels) : channels[k] = u

\* fetchCartCount, for a signed-in identity: the count query is sent
CallFetchCartCount ==
    /\ Len(badgeInflight) < MaxInflight
    /\ badgeInflight' = Append(badgeInflight, {})
    /\ badgeFor' = Append(badgeFor, user[1])

\* a row is inserted into cart_items by some page of identity u; the store
\* notifies the subscribers whose filter clerk_id=eq.<id> the row passes
StoreInsert(u, p) ==
    /\ changes < MaxChanges
    /\ LinesOf(cart_items, u, p) = {}
    /\ cart_items' = InsertRow(cart_items, u, p, 1)
    /\ notices' = IF Subscribed(u) THEN notices + 1 ELSE notices
    /\ changes' = changes + 1
    /\ UNCHANGED <<catalogVars, homeVars, orderVars, pageVars, itemCount, badgeInflight, badgeFailed,
                   badgeFor, subVars>>

\* a row of identity u is deleted from cart_items
StoreDelete(u, p) ==
    /\ changes < MaxChanges
    /\ LinesOf(cart_items, u, p) # {}
    /\ cart_items' = cart_items \ LinesOf(cart_items, u, p)
    /\ notices' = IF Subscribed(u) THEN notices + 1 ELSE notices
    /\ changes' = changes + 1
    /\ UNCHANGED <<catalogVars, homeVars, orderVars, pageVars, itemCount, badgeInflight, badgeFailed,
                   badgeFor, subVars>>

\* the postgres_changes callback: () => { fetchCartCount(); }
Notified ==
    /\ notices > 0
    /\ notices' = notices - 1
    /\ CallFetchCartCount
    /\ UNCHANGED <<catalogVars, homeVars, orderVars, pageVars, cart_items, itemCount, changes, badgeFailed,
                   subVars>>

\* handleFocus and handleCartUpdate: fetchCartCount()
WindowEvent(kind) ==
    /\ kind \in {"focus", "cartUpdated"}
    /\ listeners > 0
    /\ CallFetchCartCount
    /\ UNCHANGED <<catalogVars, homeVars, orderVars, pageVars, cart_items, itemCount, notices, changes,
                   badgeFailed, subVars>>

\* the store runs the count query of an awaited call
StoreCounts(i) ==
    /\ i \in 1..Len(badgeInflight)
    /\ badgeInflight[i] = {}
    /\ badgeInflight' = [badgeInflight EXCEPT ![i] = { CountOf(cart_items, badgeFor[i]) }]
    /\ UNCHANGED <<catalogVars, homeVars, orderVars, pageVars, cart_items, itemCount, notices, changes,
                   badgeFailed, badgeFor, subVars>>

\* the answer of a call arrives: setItemCount(count || 0)
BadgeResolve(i) ==
    /\ i \in 1..Len(badgeInflight)
    /\ badgeInflight[i] # {}
    /\ itemCount' = CHOOSE n \in badgeInflight[i] : TRUE
    /\ badgeInflight' = RemoveAt(badgeInflight, i)
    /\ badgeFor' = RemoveAt(badgeFor, i)
    /\ UNCHANGED <<catalogVars, homeVars, orderVars, pageVars, cart_items, notices, changes, badgeFailed,
                   subVars>>

\* a catch block that resets the count
CountResetOnError(n) == 0

\* catch (error) { console.error(...) }: no setItemCount, the count stays
CountAfterError(n) == n

\* a call is answered with an error: if (error) throw error; catch: console.error
BadgeReject(i) ==
    /\ i \in 1..Len(badgeInflight)
    /\ badgeInflight' = RemoveAt(badgeInflight, i)
    /\ badgeFor' = RemoveAt(badgeFor, i)
    /\ badgeFailed' = TRUE
    /\ itemCount' = CountAfterError(itemCount)
    /\ UNCHANGED <<catalogVars, homeVars, orderVars, pageVars, cart_items, notices, changes,
                   subVars>>

NextBadge ==
    \/ \E u \in Users, p \in DetailProducts : StoreInsert(u, p)
    \/ \E u \in Users, p \in DetailProducts : StoreDelete(u, p)
    \/ Notified
    \/ \E kind \in {"focus", "cartUpdated"} : WindowEvent(kind)
    \/ \E i \in 1..MaxInflight : StoreCounts(i)
    \/ \E i \in 1..MaxInflight : BadgeResolve(i)
    \/ \E i \in 1..MaxInflight : BadgeReject(i)

SpecBadge == InitBadge /\ [][NextBadge]_vars

----------------------------------------------------------------------------
(* Catalog query: properties *)

\* the list the page shows
Displayed == IF view = "client" THEN filteredProducts ELSE products
DisplayedIds == { Displayed[i] : i \in 1..Len(Displayed) }

ActiveIds == { id \in ProductIds : ProductRow(id).is_active }
ActiveIn(category) == { id \in ActiveIds : ProductRow(id).category = category }

\* text t contains q, compared case-insensitively
ContainsFolded(t, q) == Includes(Lower(t), Lower(q))

\* a is strictly before b under the sort key
KeyBefore(a, b, key) ==
    CASE key = "newest"     -> ProductRow(a).created_at > ProductRow(b).created_at
      [] key = "name_asc"   -> TextLess(ProductRow(a).name, ProductRow(b).name)
      [] key = "price_asc"  -> ProductRow(a).price < ProductRow(b).price
      [] key = "price_desc" -> ProductRow(a).price > ProductRow(b).price

SortedByKey(seq, key) ==
    \A i, j \in 1..Len(seq) : i < j => ~KeyBefore(seq[j], seq[i], key)

\* seq holds, without repetition, rows that can stand at positions
\* from+1 .. from+Len(seq) of the set M ordered by the key
WindowOf(seq, M, key, from) ==
    /\ \A i \in 1..Len(seq) :
          /\ seq[i] \in M
          /\ Cardinality({ y \in M : KeyBefore(y, seq[i], key) }) <= from + i - 1
          /\ Cardinality({ y \in M : ~KeyBefore(seq[i], y, key) }) >= from + i
    /\ \A i, j \in 1..Len(seq) : i # j => seq[i] # seq[j]
    /\ Len(seq) = Max(0, Min(ITEMS_PER_PAGE, Cardinality(M) - from))

\* C6: for every selected category c other than "all", each product of a
\* fetched result that is shown has category c; with c = "all" no category
\* condition applies (with no text query, all active products are counted).
C6_CategoryFilter ==
    walked >= 1 =>
        /\ selectedCategory # "all" =>
              \A id \in DisplayedIds : ProductRow(id).category = selectedCategory
        /\ (selectedCategory = "all" /\ ~TrimNonEmpty(searchQuery)) =>
              IF view = "paged" THEN totalCount = Cardinality(ActiveIds)
              ELSE DisplayedIds = ActiveIds

C6_Witness ==
    /\ view = "paged" /\ walked = 1
    /\ selectedCategory = "clothing" /\ searchQuery = <<>>
    /\ DisplayedIds = {3, 15}

\* C7: for every free-text query q for which the text condition applies, each
\* product in the result contains q, compared case-insensitively, as a
\* substring of its name or of its description, and also meets the category
\* condition.
C7_TextFilterMatchesSubstring ==
    (walked >= 1 /\ TrimNonEmpty(searchQuery)) =>
        \A id \in DisplayedIds :
            /\ \/ ContainsFolded(ProductRow(id).name, searchQuery)
               \/ \E d \in ProductRow(id).description : ContainsFolded(d, searchQuery)
            /\ selectedCategory # "all" => ProductRow(id).category = selectedCategory

\* C8: for fixed filter and sort parameters, the pages 1, 2, ...,
\* ceil(total / page size) concatenated in order hold every matching product
\* exactly once.
C8_PagesPartitionResult ==
    (view = "paged" /\ walked >= 1 /\ walked = TotalPages(totalCount)) =>
        /\ Len(walk) = totalCount
        /\ { walk[i] : i \in 1..Len(walk) } = Matching(selectedCategory, searchQuery)
        /\ \A i, j \in 1..Len(walk) : i # j => walk[i] # walk[j]

----------------------------------------------------------------------------
(* Catalog page: properties *)

\* the step is the answer to a request, and the answer is an error
FailedResponse == Len(inflight') < Len(inflight) /\ ~lastResponse'.ok

\* C10: when the catalog query fails, the page enters the error state: it
\* shows the underlying error message (the default one when the error has
\* none) in the error view, whose retry action is available, and the product
\* list and the total count keep the values they had before the query.
C10_FailureKeepsListAndShowsError ==
    /\ [](ErrorView => ENABLED Retry)
    /\ [][ FailedResponse =>
             /\ products' = products
             /\ totalCount' = totalCount
             /\ error' = { IF lastResponse'.message # "" THEN lastResponse'.message
                           ELSE DefaultMessage }
             /\ ErrorView' ]_vars

\* a list is on the page, a later query has failed with a message, and the
\* error view shows that message while the list and the count are still held
C10_Witness ==
    /\ view = "paged"
    /\ ~lastResponse.ok /\ lastResponse.message = "timeout"
    /\ ErrorView /\ error = {"timeout"}
    /\ Len(products) = ITEMS_PER_PAGE /\ totalCount > ITEMS_PER_PAGE

\* the parameters of the newest request: every request is issued with the
\* parameters the page holds from then on
NewestRequest == Request(selectedCategory, searchQuery, sortBy, currentPage)

\* C11: once every request has been answered and none of the answers still
\* shown is an error, the displayed page and the total count are those of the
\* newest request, whatever the order in which the answers arrived.
C11_NewestRequestWins ==
    (view = "paged" /\ inflight = << >> /\ error = {} /\ ~loading) =>
        \E plan \in TiePlans :
            /\ products = Answer[<<NewestRequest, plan>>].data
            /\ totalCount = Answer[<<NewestRequest, plan>>].count

----------------------------------------------------------------------------
(* Product detail page: properties *)

\* C12: on the detail page of a product in stock the selected quantity q
\* satisfies 1 <= q <= min(stock_quantity, 99) after any sequence of minus,
\* plus and typed inputs, and so does the quantity a running upsert was
\* passed; typed input out of the range is clamped into it.
C12_SelectedQuantityWithinBounds ==
    \A s \in Sessions :
        (product[s] # NoProduct /\ ProductRow(product[s]).stock_quantity >= 1) =>
            /\ 1 <= quantity[s]
            /\ quantity[s] <= Min(ProductRow(product[s]).stock_quantity, 99)
            /\ pc[s] # "idle" =>
                  /\ 1 <= opQuantity[s]
                  /\ opQuantity[s] <= Min(ProductRow(product[s]).stock_quantity, 99)

\* a product with more than 99 in stock: the selector stands at 99 and the
\* running upsert was passed 99
C12_Witness ==
    /\ product[1] = 4 /\ ProductRow(4).stock_quantity > 99
    /\ quantity[1] = 99
    /\ pc[1] = "insert" /\ opQuantity[1] = 99

\* the route of session s leads to a product row with nothing in stock
OutOfStockRoute(s) ==
    productId[s] \in ProductIds /\ ProductRow(productId[s]).stock_quantity = 0

\* C13: on the detail page of a product with stock_quantity = 0 the
\* add-to-cart action is never available, no upsert is ever running, and no
\* cart line for the product comes to exist.
C13_OutOfStockNeverWrites ==
    \A s \in Sessions :
        OutOfStockRoute(s) =>
            /\ ~ENABLED HandleAddToCart(s)
            /\ pc[s] = "idle"
            /\ LinesOf(cart_items, user[s], productId[s]) = {}

\* the out-of-stock product is loaded and its view is shown to a signed-in user
C13_Witness ==
    /\ OutOfStockRoute(1) /\ product[1] = productId[1]
    /\ DetailShown(1) /\ user[1] # NoUser

\* session s writes a cart line in this step
WritesLine(s) ==
    /\ pc[s] \in {"update", "insert"} /\ pc'[s] = "count"
    /\ cart_items' # cart_items

\* C14: only active products are browsable and orderable: the product the
\* detail page loads is active when it is loaded, and a cart upsert never
\* writes a line for a product that is inactive at the time of the write.
C14_OnlyActiveProducts ==
    [][ \A s \in Sessions :
          /\ product'[s] # product[s] => IsActive(product'[s])
          /\ WritesLine(s) => IsActive(product[s]) ]_vars

\* the upsert of session s completes in this step without reporting a failure:
\* the write was applied and the dialog is opened
CompletesUpsert(s) ==
    pc[s] = "count" /\ pc'[s] = "idle" /\ ~alerted'[s] /\ showDialog'[s]

\* C15: when a cart upsert completes successfully, the locally held cart item
\* count equals the number of cart lines the identity has in the store after
\* the write.
C15_CountReflectsWrite ==
    [][ \A s \in Sessions :
          CompletesUpsert(s) => cartItemCount'[s] = CountOf(cart_items', user[s]) ]_vars

----------------------------------------------------------------------------
(* Order history page: properties *)

\* the identity's orders with the status, every one of them
OwnOrders(u, status) ==
    { id \in OrderIds :
        OrderRow(id).clerk_id = u /\ (status = "all" \/ OrderRow(id).status = status) }

\* C16: the orders the page holds are only the identity's own, and once the
\* read for status filter s is answered they are exactly the identity's
\* orders whose status is s (all of them when s is "all"), each once, ordered
\* by creation time descending.
C16_OrdersOfIdentityByStatus ==
    /\ \A k \in 1..Len(orders) : OrderRow(orders[k]).clerk_id = user[1]
    /\ (OrdersShown /\ ordersLast.ok /\ ordersInflight = << >>) =>
          /\ { orders[k] : k \in 1..Len(orders) } = OwnOrders(user[1], selectedStatus)
          /\ Len(orders) = Cardinality(OwnOrders(user[1], selectedStatus))
          /\ \A j, k \in 1..Len(orders) :
                j < k => OrderRow(orders[j]).created_at >= OrderRow(orders[k]).created_at

\* the scenario: identity u1, status "shipped": its three shipped orders,
\* newest first, and not the shipped order of u2
C16_Witness ==
    /\ user[1] = "u1" /\ selectedStatus = "shipped" /\ OrdersShown
    /\ ordersInflight = << >>
    /\ Len(orders) = 3 /\ orders[3] = 2

----------------------------------------------------------------------------
(* Cart badge: properties *)

\* C17: once the notifications have been delivered and every fetchCartCount
\* they (and the focus and cartUpdated events) triggered has been answered
\* without error, the badge count equals the identity's number of cart lines.
C17_BadgeCatchesUp ==
    (notices = 0 /\ badgeInflight = << >> /\ ~badgeFailed) =>
        itemCount = CountOf(cart_items, user[1])

----------------------------------------------------------------------------
(* Pagination range: properties *)

\* C18: for every page number n >= 1 the catalog query requests the inclusive
\* zero-based row range from (n-1)*12 to (n-1)*12 + 11, which is 12 rows, and
\* the page fetched holds the rows the result has at these positions.
C18_PageRange ==
    /\ ITEMS_PER_PAGE = 12
    /\ \A n \in 1..(TotalPages(totalCount) + 1) :
          /\ RangeFrom(n) = (n - 1) * 12
          /\ RangeTo(n) = (n - 1) * 12 + 12 - 1
          /\ Cardinality(RangeFrom(n)..RangeTo(n)) = 12
    /\ (view = "paged" /\ walked >= 1) =>
          Len(products) = Max(0, Min(12, totalCount - (currentPage - 1) * 12))

\* page 2 of the 15 active products: rows 12..14
C18_Witness ==
    /\ view = "paged" /\ walked = 2 /\ currentPage = 2
    /\ totalCount = 15 /\ Len(products) = 3
    /\ RangeFrom(currentPage) = 12

----------------------------------------------------------------------------
(* Retry: properties *)

\* the request the retry issued is answered with rows in this step
RetrySucceeds == retried # 0 /\ retried' = 0 /\ lastResponse'.ok

\* C19: from the catalog error state the retry action is available and
\* re-runs the fetch, and when that fetch succeeds the error state is cleared
\* and the fetched results are shown.
C19_RetryRecovers ==
    /\ [](ErrorView => ENABLED Retry)
    /\ [][ RetrySucceeds =>
             /\ error' = {}
             /\ ~ErrorView'
             /\ \E plan \in TiePlans :
                   /\ products' = Answer[<<inflight[retried], plan>>].data
                   /\ totalCount' = Answer[<<inflight[retried], plan>>].count ]_vars

----------------------------------------------------------------------------
(* Product detail not-found: properties *)

\* no active product row has the id
NoActiveProduct(id) == ~(id \in ProductIds /\ IsActive(id))

\* fetchProduct of session s is answered in this step
Loaded(s) == detailLoading[s] /\ ~detailLoading'[s]

\* C20: when the requested product does not exist or is not active, the detail
\* view ends in the error view, which shows a message (and the link back to
\* the listing); the view is terminal, and from it no add-to-cart can be
\* started and no upsert is running.
C20_NotFoundIsTerminal ==
    /\ [](\A s \in Sessions :
            DetailErrorView(s) =>
                /\ DetailMessageShown(s) # ""
                /\ ~ENABLED HandleAddToCart(s)
                /\ pc[s] = "idle")
    /\ [][ \A s \in Sessions :
             /\ (Loaded(s) /\ NoActiveProduct(productId[s])) => DetailErrorView(s)'
             /\ DetailErrorView(s) =>
                   /\ DetailErrorView(s)'
                   /\ cart_items' = cart_items ]_vars

\* the inactive product was requested: the error view shows the message
C20_Witness ==
    /\ productId[1] \in ProductIds /\ ~ProductRow(productId[1]).is_active
    /\ DetailErrorView(1)
    /\ DetailMessageShown(1) = DefaultMessage

----------------------------------------------------------------------------
(* Page reset: properties *)

\* the selected category, the search text or the sort key changes in this step
ParamsChange ==
    <<selectedCategory, searchQuery, sortBy>>' # <<selectedCategory, searchQuery, sortBy>>

\* C21: whenever the category, the search text or the sort key changes, the
\* current page becomes 1 and every request issued for the new parameters
\* asks for page 1, never for the page number held before the change.
C21_ChangeFetchesPageOne ==
    [][ ParamsChange =>
          /\ currentPage' = 1
          /\ \A i \in (Len(inflight) + 1)..Len(inflight') : inflight'[i].page = 1 ]_vars

----------------------------------------------------------------------------
(* The home page: getPopularProducts *)

\* the products an administrator deactivates while the home page is served
HomePool == 9..15

\* how the remote call can end: rows, no error and no data, an error object
\* in the response, an exception
HomeOutcomes == {"rows", "nodata", "error", "throw"}

\* .eq("is_active", true).order("created_at", { ascending: false }), unlimited
PopularQueryUnlimited(plan) == Ordered({ r \in ProductIds : IsActive(r) }, "newest", plan)

\* .eq("is_active", true).order("created_at", { ascending: false }).limit(8)
PopularQuery(plan) ==
    LET rows == Ordered({ r \in ProductIds : IsActive(r) }, "newest", plan)
    IN SubSeq(rows, 1, Min(8, Len(rows)))

\* getPopularProducts: what it returns and whether an exception leaves it
\*   if (!supabaseUrl || !supabaseKey) return [];
\*   if (error) return [];  return data || [];  catch: return [];
GetPopularProducts(ending, plan) ==
    IF ~configured THEN [value |-> << >>, raised |-> FALSE, result |-> "noconfig"]
    ELSE IF ending = "rows"
         THEN [value |-> PopularQuery(plan), raised |-> FALSE, result |-> ending]
         ELSE [value |-> << >>, raised |-> FALSE, result |-> ending]

\* Home: const popularProducts = await getPopularProducts(), once per request
\* of the page (dynamic = "force-dynamic")
Home(ending, plan) ==
    /\ LET r == GetPopularProducts(ending, plan)
       IN /\ popularProducts' = r.value
          /\ homeRaised' = r.raised
          /\ homeResult' = r.result
    /\ homeSeen' = deactivated
    /\ UNCHANGED <<accountVars, cartVars, catalogVars, configured>>

InitHome ==
    /\ CartIdle /\ CatalogIdle /\ AccountIdle
    /\ configured \in BOOLEAN
    /\ popularProducts = << >> /\ homeResult = "none"
    /\ homeRaised = FALSE /\ homeSeen = {}

NextHome ==
    \/ \E ending \in HomeOutcomes, plan \in TiePlans : Home(ending, plan)
    \/ \E p \in HomePool : Deactivate(p)

SpecHome == InitHome /\ [][NextHome]_vars

----------------------------------------------------------------------------
(* The cart badge across sign-in, sign-out and unmount *)

\* supabase.removeChannel(channel): the channel this effect run subscribed is removed
RemoveChannel(chs, u) ==
    IF \E k \in 1..Len(chs) : chs[k] = u
    THEN RemoveAt(chs, CHOOSE k \in 1..Len(chs) : chs[k] = u)
    ELSE chs

\* if (itemCount === 0) return null
Hidden == itemCount = 0

\* useUser() returns another user object (sign-in, sign-out, another identity,
\* a refreshed user): on a mounted badge the cleanup of the previous effect
\* run removes its channel and listeners, then the effect runs again:
\*   if (!user) { setItemCount(0); return; }
\*   fetchCartCount(); channel(...).subscribe(); addEventListener x 2
UserChanges(u) ==
    /\ u \in Users \cup {NoUser}
    /\ ~(u = NoUser /\ user[1] = NoUser)
    /\ user' = [user EXCEPT ![1] = u]
    /\ IF mounted
       THEN LET wasIn == user[1] # NoUser
                kept == IF wasIn THEN RemoveChannel(channels, user[1]) ELSE channels
                heard == IF wasIn THEN listeners - 1 ELSE listeners
            IN /\ notices' = 0
               /\ IF u = NoUser
                  THEN /\ itemCount' = 0
                       /\ channels' = kept /\ listeners' = heard
                       /\ UNCHANGED <<badgeInflight, badgeFor>>
                  ELSE /\ Len(badgeInflight) < MaxInflight
                       /\ badgeInflight' = Append(badgeInflight, {})
                       /\ badgeFor' = Append(badgeFor, u)
                       /\ channels' = Append(kept, u) /\ listeners' = heard + 1
                       /\ UNCHANGED itemCount
       ELSE UNCHANGED <<notices, itemCount, channels, listeners, badgeInflight, badgeFor>>
    /\ UNCHANGED <<catalogVars, homeVars, orderVars, cart_items, deactivated, productId, product,
                   detailLoading, detailError, upsertVars, changes, badgeFailed, mounted>>

\* the badge unmounts: the effect's cleanup runs; answers still awaited reach
\* no component
Unmount ==
    /\ mounted
    /\ mounted' = FALSE
    /\ channels' = IF user[1] # NoUser THEN RemoveChannel(channels, user[1]) ELSE channels
    /\ listeners' = IF user[1] # NoUser THEN listeners - 1 ELSE listeners
    /\ notices' = 0
    /\ itemCount' = 0
    /\ badgeInflight' = << >> /\ badgeFor' = << >>
    /\ UNCHANGED <<catalogVars, homeVars, orderVars, pageVars, cart_items, changes, badgeFailed>>

\* the badge mounts: useState(0), then the effect runs for the current user
Mount ==
    /\ ~mounted
    /\ mounted' = TRUE
    /\ itemCount' = 0
    /\ IF user[1] = NoUser
       THEN UNCHANGED <<badgeInflight, badgeFor, channels, listeners>>
       ELSE /\ badgeInflight' = Append(badgeInflight, {})
            /\ badgeFor' = Append(badgeFor, user[1])
            /\ channels' = Append(channels, user[1]) /\ listeners' = listeners + 1
    /\ UNCHANGED <<catalogVars, homeVars, orderVars, pageVars, cart_items, notices, changes,
                   badgeFailed>>

\* the badge is mounted, signed in or not, and its effect has run
InitSession ==
    /\ DetailIdle /\ CatalogIdle /\ HomeIdle
    /\ user \in { [s \in Sessions |-> IF s = 1 THEN u ELSE "u1"] : u \in Users \cup {NoUser} }
    /\ selectedStatus = "all" /\ orders = << >>
    /\ ordersLoading = FALSE /\ ordersError = {} /\ ordersInflight = << >>
    /\ ordersLast = [ok |-> TRUE, message |-> ""]
    /\ itemCount = 0
    /\ notices = 0 /\ changes = 0
    /\ badgeFailed = FALSE
    /\ mounted = TRUE
    /\ IF user[1] = NoUser
       THEN badgeInflight = << >> /\ badgeFor = << >> /\ channels = << >> /\ listeners = 0
       ELSE /\ badgeInflight = << {} >> /\ badgeFor = << user[1] >>
            /\ channels = << user[1] >> /\ listeners = 1

NextSession ==
    \/ \E u \in Users \cup {NoUser} : UserChanges(u)
    \/ Unmount
    \/ Mount
    \/ \E u \in Users, p \in DetailProducts : StoreInsert(u, p)
    \/ Notified
    \/ \E kind \in {"focus", "cartUpdated"} : WindowEvent(kind)
    \/ \E i \in 1..MaxInflight : StoreCounts(i)
    \/ \E i \in 1..MaxInflight : BadgeResolve(i)
    \/ \E i \in 1..MaxInflight : BadgeReject(i)

SpecSession == InitSession /\ [][NextSession]_vars

----------------------------------------------------------------------------
(* handleAddToCart called with any user and any product *)

\* handleAddToCart, called whatever the page renders: it returns at its guard
\* or starts the upsert
CallHandleAddToCart(s) ==
    /\ pc[s] = "idle"
    /\ IF ReturnsAtGuard(s)
       THEN /\ guarded < MaxAdds
            /\ guarded' = guarded + 1
            /\ UNCHANGED <<accountVars, homeVars, catalogVars, cart_items, detailVars, quantity,
                           localVars, pc, opQuantity, existingItem, outcome, alerted, added,
                           started>>
       ELSE BeginUpsert(s)

\* session 1 holds any user or none, and any product or none
InitGuard ==
    /\ cart_items \in InitialCarts
    /\ user \in { [s \in Sessions |-> IF s = 1 THEN u ELSE "u1"] : u \in Users \cup {NoUser} }
    /\ deactivated = {}
    /\ product \in { [s \in Sessions |-> IF s = 1 THEN p ELSE 1] :
                        p \in DetailProducts \cup {NoProduct} }
    /\ productId = [s \in Sessions |-> IF product[s] = NoProduct THEN 1 ELSE product[s]]
    /\ detailLoading = [s \in Sessions |-> FALSE]
    /\ detailError = [s \in Sessions |->
                         IF product[s] = NoProduct THEN { NotFoundMessage } ELSE {}]
    /\ quantity \in { [s \in Sessions |-> IF s = 1 THEN q ELSE 1] : q \in 1..2 }
    /\ addingToCart = [s \in Sessions |-> FALSE]
    /\ showDialog = [s \in Sessions |-> FALSE]
    /\ cartItemCount = [s \in Sessions |-> 0]
    /\ pc = [s \in Sessions |-> "idle"]
    /\ opQuantity = [s \in Sessions |-> 0]
    /\ existingItem = [s \in Sessions |-> {}]
    /\ outcome = [s \in Sessions |-> "none"]
    /\ alerted = [s \in Sessions |-> FALSE]
    /\ added = [n |-> 0, sum |-> 0]
    /\ started = 0 /\ guarded = 0
    /\ CatalogIdle /\ AccountIdle /\ HomeIdle

NextGuard ==
    \/ CallHandleAddToCart(1)
    \/ LookupReturn(1)
    \/ UpdateOk(1)
    \/ InsertOk(1)
    \/ InsertError(1)
    \/ CountReturn(1)
    \/ CloseDialog(1)

SpecGuard == InitGuard /\ [][NextGuard]_vars

----------------------------------------------------------------------------
(* The catalog page and its URL: properties *)

\* the URL's category parameter is missing or is not one of the valid values
NoValidParam(params) == \A c \in params : c \notin validCategories

\* C22: the selected category is always one of the eight valid values, and a
\* URL whose category parameter is missing or not in the list selects "all",
\* at mount and after every later change of the URL.
C22_CategoryFollowsUrl ==
    /\ (selectedCategory \in validCategories)
    /\ (view = "paged" /\ NoValidParam(searchParams) => selectedCategory = "all")

----------------------------------------------------------------------------
(* The home page: properties *)

\* the product was active when the latest query read the table
ActiveWhenRead(id) == ProductRow(id).is_active /\ id \notin homeSeen

\* C23: the home page list holds at most 8 products, all active, newest
\* first; with the configuration missing, an error in the response or an
\* exception, the list is empty, and no exception reaches the page.
C23_PopularProducts ==
    homeResult # "none" =>
        /\ Len(popularProducts) <= 8
        /\ \A i \in 1..Len(popularProducts) : ActiveWhenRead(popularProducts[i])
        /\ \A i, j \in 1..Len(popularProducts) :
              i < j => /\ popularProducts[i] # popularProducts[j]
                       /\ ProductRow(popularProducts[i]).created_at
                            >= ProductRow(popularProducts[j]).created_at
        /\ \A r \in ProductIds :
              ActiveWhenRead(r) /\ homeResult = "rows"
                /\ (\A i \in 1..Len(popularProducts) : popularProducts[i] # r)
              => /\ Len(popularProducts) = 8
                 /\ \A i \in 1..Len(popularProducts) :
                       ProductRow(popularProducts[i]).created_at >= ProductRow(r).created_at
        /\ (homeResult \in {"noconfig", "error", "throw"} => popularProducts = << >>)
        /\ ~homeRaised

\* a full list was served while more than eight products were active, and a
\* failed request was served with an empty list
C23_Witness ==
    /\ homeResult = "rows"
    /\ Len(popularProducts) = 8
    /\ Cardinality({ r \in ProductIds : ActiveWhenRead(r) }) > 8
    /\ homeSeen # {}

----------------------------------------------------------------------------
(* The cart badge across sign-in, sign-out and unmount: properties *)

\* C24: while no user is signed in the badge count is 0, the badge is hidden
\* and no count query or subscription is opened; a change of user or an
\* unmount removes the previous subscription and listeners, so that at most
\* one subscription is active.
C24_SignedOutBadge ==
    /\ [](user[1] = NoUser /\ mounted => itemCount = 0 /\ Hidden)
    /\ [](user[1] = NoUser \/ ~mounted => channels = << >> /\ listeners = 0)
    /\ [](Len(channels) <= 1 /\ listeners <= 1)
    /\ [][ user[1] = NoUser /\ user'[1] = NoUser =>
             /\ Len(badgeInflight') <= Len(badgeInflight)
             /\ channels' = channels ]_vars

----------------------------------------------------------------------------
(* handleAddToCart called with any user and any product: properties *)

\* C25: with no signed-in user or no loaded product, a call of the cart upsert
\* issues no remote read or write and leaves addingToCart, the cart count and
\* the dialog state as they were.
C25_GuardedCallDoesNothing ==
    [][ \A s \in Sessions :
          user[s] = NoUser \/ product[s] = NoProduct =>
             /\ pc'[s] = "idle" /\ outcome'[s] = outcome[s]
             /\ cart_items' = cart_items
             /\ started' = started
             /\ addingToCart'[s] = addingToCart[s]
             /\ cartItemCount'[s] = cartItemCount[s]
             /\ showDialog'[s] = showDialog[s] ]_vars

\* the upsert was called twice without a product, by a signed-in user
C25_Witness ==
    /\ guarded = MaxAdds
    /\ user[1] # NoUser /\ product[1] = NoProduct
    /\ pc[1] = "idle" /\ ~addingToCart[1] /\ started = 0

----------------------------------------------------------------------------
(* One upsert at a time: properties *)

\* C26: in one session at most one upsert is in flight: addingToCart is true
\* from the start of an upsert until it ends, by success or by failure, no
\* upsert starts while it is true, and it is false once the upsert has ended.
C26_OneUpsertInFlight ==
    /\ [](\A s \in Sessions : addingToCart[s] <=> pc[s] # "idle")
    /\ [][ started' # started =>
             \E s \in Sessions :
                /\ pc[s] = "idle" /\ ~addingToCart[s]
                /\ pc'[s] = "lookup" /\ addingToCart'[s] ]_vars

\* one session's upsert has failed and another upsert has succeeded, and both
\* have ended
C26_Witness ==
    /\ started = MaxAdds
    /\ \E s \in Sessions :
          /\ alerted[s] /\ pc[s] = "idle" /\ ~addingToCart[s]
          /\ showDialog[Other(s)] /\ pc[Other(s)] = "idle" /\ ~addingToCart[Other(s)]

----------------------------------------------------------------------------
(* The loading flag: properties *)

\* C27: on the catalog page the loading flag is true whenever some catalog
\* request is in flight, overlapping requests included, and false once every
\* issued request has been answered, with rows or with an error.
C27_LoadingWhileInFlight ==
    view = "paged" => (loading <=> inflight # << >>)

----------------------------------------------------------------------------
(* The cart badge after a failed re-fetch: properties *)

\* a fetchCartCount call is answered with an error in this step: an awaited
\* call leaves, and either it is the first failure or the store had not
\* counted for it
FailedCountAnswer ==
    /\ Len(badgeInflight') < Len(badgeInflight)
    /\ \/ ~badgeFailed /\ badgeFailed'
       \/ \E i \in 1..Len(badgeInflight) :
             badgeInflight[i] = {} /\ badgeInflight' = RemoveAt(badgeInflight, i)

\* C28: for a signed-in user, a failed re-fetch of the cart count leaves the
\* badge count at the value it had: it is neither reset to 0 nor changed.
C28_FailedRefetchKeepsCount ==
    [][ user[1] # NoUser /\ FailedCountAnswer => itemCount' = itemCount ]_vars

\* a re-fetch has failed and the badge still shows the earlier count, which
\* is neither 0 nor the count of the store
C28_Witness ==
    /\ user[1] # NoUser
    /\ badgeFailed /\ badgeInflight = << >>
    /\ itemCount > 0
    /\ itemCount # CountOf(cart_items, user[1])

====
